---- MODULE Spec2Model ----
(***************************************************************************)
(* PhotoFrameSync: a command-line client that authorizes against a photo   *)
(* service (OAuth2 with a local callback listener), retrieves a list of    *)
(* media references (picker session with polling and pagination, or a      *)
(* paginated search) and downloads each reference to a local folder.       *)
(*                                                                         *)
(* Two programs share most of their code:                                  *)
(*   variant "picker"  src/unnamed/part_000  (Photos Picker API)           *)
(*   variant "search"  src/main.go           (Library search API)          *)
(*                                                                         *)
(* Two specifications are given over one set of variables:                 *)
(*   SpecAuth  getClient and the callback server goroutines                *)
(*   Spec      main after getClient has returned the client: retrieval     *)
(*             and download, and later runs of the download loop           *)
(***************************************************************************)
EXTENDS Integers, Sequences, FiniteSets, TLC

\* ------------------------------------------------------------------ bounds
\* Callback requests the listener serves in one process.
MaxRequests == 2
\* Session polls of one waitForSessionComplete that the poll log keeps apart;
\* the loop may poll more often than that.
MaxPolls == 2
\* Page requests of one retrieval.
MaxPages == 2

\* ------------------------------------------------------------- value sets
\* Values of the "code" form parameter of a callback request; "" is what
\* r.FormValue returns when the request carries no code parameter.
Codes == {"", "c1", "c2"}
Methods == {"GET", "POST"}
\* Whether r.ParseForm can parse the request's query string.
Queries == {"wellformed", "malformed"}

\* An oauth2.Token, reduced to where it came from and to whether
\* tok.Expiry.Before(time.Now()) holds when getClient evaluates it.
Token(code, expired) == [kind |-> "token", code |-> code, expired |-> expired]
NoToken == [kind |-> "none", code |-> "", expired |-> FALSE]
\* token.json: absent or unreadable, not decodable as JSON, or a cached token.
Unreadable == [kind |-> "unreadable", code |-> "", expired |-> FALSE]
Undecodable == [kind |-> "undecodable", code |-> "", expired |-> FALSE]
CachedTokens == {Token("cached", e) : e \in BOOLEAN}
TokenFiles == {Unreadable, Undecodable} \cup CachedTokens

VARIABLES
  pc,            \* position of the main goroutine
  variant,       \* "picker" or "search": which program runs
  \* --- credential store and authorization flow
  tokenFile,     \* content of token.json
  tokenFile0,    \* content of token.json when the process started
  tok,           \* getClient's tok
  site,          \* call site of getNewTokenAndSave in getClient: 0 none, 1 (load failed), 2 (expired)
  registered,    \* pattern "/" is registered on http.DefaultServeMux
  listener,      \* the goroutine running http.ListenAndServe: "none", "starting", "up", "failed"
  listeners,     \* number of listener goroutines started
  handler,       \* postHandler goroutines, one per callback request
  consumed,      \* codes received from authCodeChannel, in order
  exchanged,     \* codes passed to config.Exchange, in order
  saves,         \* number of times saveToken wrote token.json
  \* --- selection negotiator (picker) and search client
  session,       \* the PickingSession's PollingConfig
  timerFired,    \* timeoutTimer has fired: its channel got its value
  tickerReady,   \* ticker.C holds a value
  pollLog,       \* outcome of every session poll sent, in order; "sent" while in flight
  fetches,       \* calls of fetchSelectedMediaItems
  pageReqs,      \* page token carried by every page request sent, in order ("" is none)
  pageResps,     \* every page decoded from a 200 response, in order
  nextPageToken, \* nextPageToken of fetchSelectedMediaItems, pageToken of SearchMediaItems
  payload,       \* the caller's filterPayload map (search): its pageSize and pageToken keys
  items,         \* downloadableItems.MediaItems (picker), allItems and mediaItems (search)
  err,           \* the error main ends with, "" while there is none
  \* --- downloader
  idx,           \* index of the next item of the download loop
  folder,        \* the target folder: file name -> file
  folder0,       \* the folder as the current run found it
  log,           \* DownloadMediaItem calls of the current run, in order
  prevRun        \* the previous run of the download loop: "none", "ok", "failed"

authVars == <<tokenFile, tokenFile0, tok, site, registered, listener, listeners,
              handler, consumed, exchanged, saves>>
pickVars == <<session, timerFired, tickerReady, pollLog, fetches>>
pageVars == <<pageReqs, pageResps, nextPageToken, payload, items>>
downloadVars == <<idx, folder, folder0, log, prevRun>>
mainVars == <<pickVars, pageVars, err, downloadVars>>

vars == <<pc, variant, authVars, mainVars>>

Requests == 1..MaxRequests
IdleHandler == [st |-> "idle", code |-> ""]

\* The process is running: log.Fatalf, a panic and the return of main end it
\* and every goroutine with it.
Dead == {"fatal", "panic", "exit"}
Alive == pc \notin Dead

\* ------------------------------------------------- credential store (getClient)
\* tokenFromFile returns an error: os.Open or the JSON decoder failed.
LoadFails(file) == file.kind # "token"

\* The test with its comparison turned around: tok.Expiry.After(time.Now()).
NeedsRefreshInverted(t) == ~t.expired

\* getClient's test tok.Expiry.Before(time.Now()).
NeedsRefresh(t) == t.expired

\* getClient up to the first test: tokenFromFile, and on its error the first
\* call of getNewTokenAndSave.
tokenFromFile ==
  /\ pc = "getClient"
  /\ IF LoadFails(tokenFile)
       THEN /\ site' = 1
            /\ pc' = "HandleFunc"
            /\ tok' = tok
       ELSE /\ tok' = tokenFile
            /\ pc' = "checkExpiry"
            /\ site' = site
  /\ UNCHANGED <<mainVars, tokenFile0, variant, tokenFile, registered, listener, listeners, handler,
                 consumed, exchanged, saves>>

\* getClient's expiry test: the second call of getNewTokenAndSave, or the
\* return of the client.
checkExpiry ==
  /\ pc = "checkExpiry"
  /\ IF NeedsRefresh(tok)
       THEN /\ site' = 2
            /\ pc' = "HandleFunc"
       ELSE /\ pc' = "authorized"
            /\ site' = site
  /\ UNCHANGED <<mainVars, tokenFile0, variant, tokenFile, tok, registered, listener, listeners,
                 handler, consumed, exchanged, saves>>

\* ------------------------------------------- authorization flow (getTokenFromWeb)
\* http.HandleFunc("/", postHandler) panics when the pattern is registered
\* already; otherwise the listener goroutine is started and the URL printed.
HandleFunc ==
  /\ pc = "HandleFunc"
  /\ IF registered
       THEN /\ pc' = "panic"
            /\ UNCHANGED <<registered, listener, listeners>>
       ELSE /\ registered' = TRUE
            /\ listener' = "starting"
            /\ listeners' = listeners + 1
            /\ pc' = "awaitCode"
  /\ UNCHANGED <<mainVars, tokenFile0, variant, tokenFile, tok, site, handler, consumed, exchanged, saves>>

\* The listener goroutine: http.ListenAndServe(":8080", nil) serves, or
\* returns an error (the port is taken), which is printed.
ListenAndServe ==
  /\ Alive
  /\ listener = "starting"
  /\ \/ listener' = "up"
     \/ listener' = "failed"
  /\ UNCHANGED <<mainVars, tokenFile0, pc, variant, tokenFile, tok, site, registered, listeners, handler,
                 consumed, exchanged, saves>>

\* postHandler up to its channel send: a request that is not a GET returns
\* without a word, an unparsable form is answered 400, any other request goes
\* on to send r.FormValue("code") on authCodeChannel.
postHandlerEntry(method, query, code) ==
  IF method # "GET" THEN [st |-> "returned", code |-> ""]
  ELSE IF query = "malformed" THEN [st |-> "badRequest", code |-> ""]
  ELSE [st |-> "sending", code |-> code]

\* A callback request arrives and its postHandler goroutine runs up to the
\* send. Requests are numbered in their order of arrival.
postHandler(h, method, query, code) ==
  /\ Alive
  /\ listener = "up"
  /\ handler[h].st = "idle"
  /\ \A g \in Requests : g < h => handler[g].st # "idle"
  /\ handler' = [handler EXCEPT ![h] = postHandlerEntry(method, query, code)]
  /\ UNCHANGED <<mainVars, tokenFile0, pc, variant, tokenFile, tok, site, registered, listener, listeners,
                 consumed, exchanged, saves>>

\* The value a blocked postHandler h hands over on authCodeChannel.
Sent(h) == handler[h].code

\* The receive in a loop that drains the channel: a code is taken and the
\* flow stays at the receive.
RecvCodeAgain(h) ==
  /\ pc = "awaitCode"
  /\ handler[h].st = "sending"
  /\ consumed' = Append(consumed, Sent(h))
  /\ handler' = [handler EXCEPT ![h].st = "responded"]
  /\ UNCHANGED <<mainVars, tokenFile0, pc, variant, tokenFile, tok, site, registered,
                 listener, listeners, exchanged, saves>>

\* authCode := <-authCodeChannel: the channel is unbuffered, so the receive
\* pairs with one postHandler blocked in its send; that handler then writes
\* its 200 response.
RecvCode(h) ==
  /\ pc = "awaitCode"
  /\ handler[h].st = "sending"
  /\ consumed' = Append(consumed, Sent(h))
  /\ handler' = [handler EXCEPT ![h].st = "responded"]
  /\ pc' = "Exchange"
  /\ UNCHANGED <<mainVars, tokenFile0, variant, tokenFile, tok, site, registered, listener, listeners,
                 exchanged, saves>>

\* The local authCode of getTokenFromWeb.
authCode == consumed[Len(consumed)]

\* config.Exchange(ctx, authCode): the service answers with a token, or with
\* an error and log.Fatalf ends the process. A token without an expires_in
\* has the zero Expiry, which is before any time.Now().
Exchange ==
  /\ pc = "Exchange"
  /\ exchanged' = Append(exchanged, authCode)
  /\ \/ pc' = "fatal" /\ tok' = tok
     \/ \E e \in BOOLEAN : tok' = Token(authCode, e) /\ pc' = "saveToken"
  /\ UNCHANGED <<mainVars, tokenFile0, variant, tokenFile, site, registered, listener, listeners, handler,
                 consumed, saves>>

\* getNewTokenAndSave after getTokenFromWeb: saveToken creates token.json
\* (log.Fatalf when it cannot) and encodes the token into it; control goes
\* back to getClient.
saveToken ==
  /\ pc = "saveToken"
  /\ \/ pc' = "fatal" /\ UNCHANGED <<tokenFile, saves>>
     \/ /\ tokenFile' = tok
        /\ saves' = saves + 1
        /\ pc' = IF site = 1 THEN "checkExpiry" ELSE "authorized"
  /\ UNCHANGED <<mainVars, tokenFile0, variant, tok, site, registered, listener, listeners, handler,
                 consumed, exchanged>>

\* --------------------------------------------------------------- value sets
\* A media reference: MediaFile (picker), MediaItem (search).
Item(name, url) == [Filename |-> name, BaseUrl |-> url]
Filenames == {"a.jpg", "b.jpg"}
MediaItems == {Item("a.jpg", "u1"), Item("a.jpg", "u2"), Item("b.jpg", "u3")}
\* The mediaItems array of one page.
PageItems == {<<>>} \cup {<<m>> : m \in MediaItems}
\* Continuation tokens; "" is the absent nextPageToken.
PageTokens == {"t1", "t2"}
\* A decoded MediaItemsList / MediaItemsResponse.
Pages == [mediaItems : PageItems, nextPageToken : PageTokens \cup {""}]
\* What can go wrong with one API request: client.Get / Post / Do returns an
\* error, the status is not 200, the body does not decode.
Failures == {"transport", "status", "decode"}

\* pollingConfig strings as the service may send them.
PollIntervals == {"soon", "0s", "-1s", "2s"}
TimeoutIns == {"", "0s", "\"5s\""}
NoSession == [pollInterval |-> "", timeoutIn |-> ""]

\* strings.Trim(duration, "\""): leading and trailing quotes are cut.
Trim(str) == IF str = "\"5s\"" THEN "5s" ELSE str

\* time.ParseDuration on the trimmed strings above, in seconds: a sign, a
\* number and a unit; anything else is an error.
ParseDuration(str) ==
  CASE str = "0s" -> [ok |-> TRUE, d |-> 0]
    [] str = "-1s" -> [ok |-> TRUE, d |-> -1]
    [] str = "2s" -> [ok |-> TRUE, d |-> 2]
    [] str = "5s" -> [ok |-> TRUE, d |-> 5]
    [] OTHER -> [ok |-> FALSE, d |-> 0]

parseDuration(duration) == ParseDuration(Trim(duration))

\* A file of the folder: whether it exists, the URL its bytes were streamed
\* from ("old" for a file that was there before any run) and whether the
\* stream reached its end.
NoFile == [exists |-> FALSE, bytes |-> "", complete |-> FALSE]
OldFile == [exists |-> TRUE, bytes |-> "old", complete |-> TRUE]
\* The folders a first run may find: empty, or holding a.jpg from before.
Folders == {[n \in Filenames |-> NoFile],
            [n \in Filenames |-> IF n = "a.jpg" THEN OldFile ELSE NoFile]}
\* What the environment does to one DownloadMediaItem call whose file is not
\* there: os.Stat fails otherwise than with "not exist", client.Get fails,
\* the status is not 200, os.Create fails, io.Copy fails, or nothing fails.
DownloadEvents == {"statErr", "getErr", "badStatus", "createErr", "copyErr", "ok"}

\* ------------------------------------------------- main after getClient
\* What main does with an error of the retrieval: log.Fatalf.
OnRetrievalError == "fatal"

\* A failed retrieval that hands back what it has so far.
Partial(acc) == acc

\* The item list a failed retrieval returns: DownloadableMediaItems{} / nil.
Discarded(acc) == <<>>

\* newSession: POST to the sessions endpoint. Every failure ends in
\* log.Fatalf, in newSession itself or in main.
newSession ==
  /\ pc = "authorized"
  /\ variant = "picker"
  /\ \/ \E f \in Failures :
          /\ err' = "newSession"
          /\ pc' = "fatal"
          /\ session' = session
     \/ \E i \in PollIntervals, t \in TimeoutIns :
          /\ session' = [pollInterval |-> i, timeoutIn |-> t]
          /\ pc' = "waitForSessionComplete"
          /\ err' = err
  /\ UNCHANGED <<variant, authVars, timerFired, tickerReady, pollLog, fetches,
                 pageVars, downloadVars>>

\* waitForSessionComplete before its loop: both durations are parsed, the
\* timer and the ticker are created. A timer of a non-positive duration
\* fires at once; time.NewTicker panics on a non-positive interval.
waitForSessionComplete ==
  /\ pc = "waitForSessionComplete"
  /\ LET interval == parseDuration(session.pollInterval)
         timeout == parseDuration(session.timeoutIn)
     IN  IF ~interval.ok
           THEN /\ err' = "invalid polling interval"
                /\ pc' = OnRetrievalError
                /\ timerFired' = timerFired
         ELSE IF ~timeout.ok
           THEN /\ err' = "invalid timeout"
                /\ pc' = OnRetrievalError
                /\ timerFired' = timerFired
         ELSE IF interval.d <= 0
           THEN /\ pc' = "panic"
                /\ timerFired' = (timeout.d <= 0)
                /\ err' = err
         ELSE /\ pc' = "select"
              /\ timerFired' = (timeout.d <= 0)
              /\ err' = err
  /\ UNCHANGED <<variant, authVars, session, tickerReady, pollLog, fetches,
                 pageVars, downloadVars>>

\* The goroutine is parked in the select with both channels empty: the first
\* value to arrive decides the case.
Parked == pc = "select" /\ ~timerFired /\ ~tickerReady

\* The goroutine is away in pollForCompleteSession: values that arrive now
\* wait in their channels, and the next select may find both.
Away == pc = "polling"

\* The runtime fires timeoutTimer: its channel gets the one value. (After the
\* loop is left nobody reads the channels; firings then are left out.)
TimerFire ==
  /\ Parked \/ Away
  /\ ~timerFired
  /\ timerFired' = TRUE
  /\ UNCHANGED <<pc, variant, authVars, session, tickerReady, pollLog, fetches,
                 pageVars, err, downloadVars>>

\* The runtime ticks the ticker: its channel of capacity one gets a value
\* (a tick is dropped while the channel is full). The ticker ticks for as
\* long as the loop runs.
Tick ==
  /\ Parked \/ Away
  /\ ~tickerReady
  /\ tickerReady' = TRUE
  /\ UNCHANGED <<pc, variant, authVars, session, timerFired, pollLog, fetches,
                 pageVars, err, downloadVars>>

\* A timeout case that leaves the select only: the timer's value is taken
\* and the loop goes round again.
SelectTimeoutBreak ==
  /\ pc = "select"
  /\ timerFired
  /\ timerFired' = FALSE
  /\ UNCHANGED <<pc, variant, authVars, session, tickerReady, pollLog, fetches,
                 pageVars, err, downloadVars>>

\* select, case <-timeoutTimer.C: the timeout error is returned.
SelectTimeout ==
  /\ pc = "select"
  /\ timerFired
  /\ err' = "session timed out"
  /\ items' = Discarded(items)
  /\ pc' = OnRetrievalError
  /\ UNCHANGED <<variant, authVars, session, timerFired, tickerReady, pollLog, fetches,
                 pageReqs, pageResps, nextPageToken, payload, downloadVars>>

\* The poll log with one more poll in flight. The log keeps the first
\* MaxPolls polls apart; a later poll takes the place of the poll before it,
\* which answered "false" (the only answer after which the loop polls again).
Sending(polls) ==
  IF Len(polls) < MaxPolls THEN Append(polls, "sent")
  ELSE [polls EXCEPT ![Len(polls)] = "sent"]

\* select, case <-ticker.C: pollForCompleteSession sends its GET. When both
\* channels hold a value, select takes either case.
SelectTicker ==
  /\ pc = "select"
  /\ tickerReady
  /\ tickerReady' = FALSE
  /\ pollLog' = Sending(pollLog)
  /\ pc' = "polling"
  /\ UNCHANGED <<variant, authVars, session, timerFired, fetches, pageVars, err,
                 downloadVars>>

\* A poll that reports every decoded 200 response as complete.
MediaItemsSetIgnored(r) == TRUE

\* The poll's answer: sessionResult.MediaItemsSet of a decoded 200 response.
MediaItemsSet(r) == r = "true"

\* A poll whose error is taken for "not yet": the loop goes back to the
\* select and polls again at the next tick.
pollForCompleteSessionRetry(r) ==
  /\ pc = "polling"
  /\ pollLog' = [pollLog EXCEPT ![Len(pollLog)] = r]
  /\ IF MediaItemsSet(r) /\ r \notin Failures
       THEN /\ fetches' = fetches + 1
            /\ pc' = "fetchFirst"
     ELSE /\ pc' = "select"
          /\ fetches' = fetches
  /\ UNCHANGED <<variant, authVars, session, timerFired, tickerReady, pageVars, err,
                 downloadVars>>

\* pollForCompleteSession returns: an error ends waitForSessionComplete,
\* mediaItemsSet = false goes back to the select, mediaItemsSet = true calls
\* fetchSelectedMediaItems.
pollForCompleteSession(r) ==
  /\ pc = "polling"
  /\ pollLog' = [pollLog EXCEPT ![Len(pollLog)] = r]
  /\ IF r \in Failures
       THEN /\ err' = "polling failed"
            /\ items' = Discarded(items)
            /\ pc' = OnRetrievalError
            /\ fetches' = fetches
     ELSE IF MediaItemsSet(r)
       THEN /\ fetches' = fetches + 1
            /\ pc' = "fetchFirst"
            /\ UNCHANGED <<err, items>>
     ELSE /\ pc' = "select"
          /\ UNCHANGED <<err, items, fetches>>
  /\ UNCHANGED <<variant, authVars, session, timerFired, tickerReady,
                 pageReqs, pageResps, nextPageToken, payload, downloadVars>>

\* --------------------------------------------------------------- pagination
\* The service ends the list at the latest with page number MaxPages.
MayFollow(page) == Len(pageReqs) + 1 < MaxPages \/ page.nextPageToken = ""

\* The page put in front of the list instead of behind it.
Prepended(acc, page) == page.mediaItems \o acc

\* append(acc, page.MediaItems...)
Appended(acc, page) == acc \o page.mediaItems

\* The token the loop carries to its next request.
Continuation(page) == page.nextPageToken

\* fetchSelectedMediaItems, first page: getMediaItemsFromFirstPage sends no
\* pageToken parameter.
getMediaItemsFromFirstPage ==
  /\ pc = "fetchFirst"
  /\ pageReqs' = Append(pageReqs, "")
  /\ \/ \E f \in Failures :
          /\ err' = "failed to fetch first page"
          /\ items' = Discarded(items)
          /\ pc' = OnRetrievalError
          /\ UNCHANGED <<pageResps, nextPageToken>>
     \/ \E page \in Pages :
          /\ MayFollow(page)
          /\ pageResps' = Append(pageResps, page)
          /\ items' = page.mediaItems
          /\ nextPageToken' = Continuation(page)
          /\ pc' = IF Continuation(page) # "" THEN "fetchNext" ELSE "downloadItems"
          /\ err' = err
  /\ UNCHANGED <<variant, authVars, pickVars, payload, downloadVars>>

\* fetchSelectedMediaItems, loop body: getMediaItemsFromPageURL sends
\* nextPageToken as the pageToken parameter.
getMediaItemsFromPageURL ==
  /\ pc = "fetchNext"
  /\ pageReqs' = Append(pageReqs, nextPageToken)
  /\ \/ \E f \in Failures :
          /\ err' = "failed to fetch next page"
          /\ items' = Discarded(items)
          /\ pc' = OnRetrievalError
          /\ UNCHANGED <<pageResps, nextPageToken>>
     \/ \E page \in Pages :
          /\ MayFollow(page)
          /\ pageResps' = Append(pageResps, page)
          /\ items' = Appended(items, page)
          /\ nextPageToken' = Continuation(page)
          /\ pc' = IF Continuation(page) # "" THEN "fetchNext" ELSE "downloadItems"
          /\ err' = err
  /\ UNCHANGED <<variant, authVars, pickVars, payload, downloadVars>>

\* SearchMediaItems: payload := filterPayload names the caller's map, so the
\* two assignments write into it.
Prepared(map, pageToken) ==
  [pageSize |-> TRUE,
   pageToken |-> IF pageToken # "" THEN pageToken ELSE map.pageToken]

\* SearchMediaItems, one turn of its loop: the payload is prepared and
\* posted, the page appended; an empty nextPageToken breaks the loop.
SearchMediaItems ==
  /\ pc \in {"authorized", "SearchMediaItems"}
  /\ variant = "search"
  /\ payload' = Prepared(payload, nextPageToken)
  /\ pageReqs' = Append(pageReqs, payload'.pageToken)
  /\ \/ \E f \in Failures :
          /\ err' = "error retrieving photos"
          /\ items' = Discarded(items)
          /\ pc' = OnRetrievalError
          /\ UNCHANGED <<pageResps, nextPageToken>>
     \/ \E page \in Pages :
          /\ MayFollow(page)
          /\ pageResps' = Append(pageResps, page)
          /\ items' = Appended(items, page)
          /\ nextPageToken' = IF page.nextPageToken = "" THEN nextPageToken
                              ELSE Continuation(page)
          /\ pc' = IF page.nextPageToken = "" THEN "downloadItems" ELSE "SearchMediaItems"
          /\ err' = err
  /\ UNCHANGED <<variant, authVars, pickVars, downloadVars>>

\* --------------------------------------------------------------- downloader
\* downloadUrl := item.BaseUrl + "=d"
downloadUrl(item) == item.BaseUrl \o "=d"

\* A Stat that looks at another path than the one the file is written to,
\* and so never finds it.
StatBlind(dir, name, event) == IF event = "statErr" THEN "error" ELSE "notExist"

\* os.Stat(filePath) on the folder dir: nil for a file that is there; for one
\* that is not, "not exist" or, as the environment has it, another error.
Stat(dir, name, event) ==
  IF dir[name].exists THEN "exists"
  ELSE IF event = "statErr" THEN "error"
  ELSE "notExist"

\* A download that checks item.Filename and writes the bytes under another
\* name: no file appears under item.Filename.
DownloadMediaItemWrongPath(item, dir, event) ==
  LET here == dir[item.Filename]
      url == downloadUrl(item)
      found == Stat(dir, item.Filename, event)
  IN  IF found = "exists" THEN [req |-> "", err |-> FALSE, file |-> here]
      ELSE IF found = "error" THEN [req |-> "", err |-> TRUE, file |-> here]
      ELSE [req |-> url, err |-> event # "ok", file |-> here]

\* A download without the existence check: os.Create truncates the file that
\* is there and the bytes are streamed into it again.
DownloadMediaItemOverwrite(item, dir, event) ==
  LET here == dir[item.Filename]
      url == downloadUrl(item)
  IN  IF event = "statErr" THEN [req |-> "", err |-> TRUE, file |-> here]
      ELSE IF event \in {"getErr", "badStatus", "createErr"}
        THEN [req |-> url, err |-> TRUE, file |-> here]
      ELSE IF event = "copyErr"
        THEN [req |-> url, err |-> TRUE,
              file |-> [exists |-> TRUE, bytes |-> url, complete |-> FALSE]]
      ELSE [req |-> url, err |-> FALSE,
            file |-> [exists |-> TRUE, bytes |-> url, complete |-> TRUE]]

\* One call DownloadMediaItem(item, folder, client) under the environment's
\* event: the URL it requested ("" when it sent no request), whether it
\* returned an error, and the file it leaves under item.Filename.
DownloadMediaItem(item, dir, event) ==
  LET here == dir[item.Filename]
      url == downloadUrl(item)
      found == Stat(dir, item.Filename, event)
  IN  IF found = "exists" THEN [req |-> "", err |-> FALSE, file |-> here]
      ELSE IF found = "error" THEN [req |-> "", err |-> TRUE, file |-> here]
      ELSE IF event \in {"getErr", "badStatus", "createErr"}
        THEN [req |-> url, err |-> TRUE, file |-> here]
      ELSE IF event = "copyErr"
        THEN [req |-> url, err |-> TRUE,
              file |-> [exists |-> TRUE, bytes |-> url, complete |-> FALSE]]
      ELSE [req |-> url, err |-> FALSE,
            file |-> [exists |-> TRUE, bytes |-> url, complete |-> TRUE]]

\* A loop that is left at the first error.
AfterErrorBreak(i) == Len(items) + 1

\* A loop that calls again for the item whose call returned an error.
AfterErrorRetry(i) == i

\* What the download loop does after a call returned an error: the error is
\* printed and the loop goes on with the next item.
AfterError(i) == i + 1

\* downloadItems (picker) and the loop at the end of main (search), one turn:
\* the loop calls DownloadMediaItem for the next item of the list and is
\* blocked in the call until it returns.
CallDownloadMediaItem ==
  /\ pc = "downloadItems"
  /\ idx <= Len(items)
  /\ pc' = "DownloadMediaItem"
  /\ UNCHANGED <<variant, authVars, mainVars>>

\* The call returns: what it did to the folder, the error it returned, and
\* the loop's step to the next item.
downloadItems(event) ==
  /\ pc = "DownloadMediaItem"
  /\ pc' = "downloadItems"
  /\ LET item == items[idx]
         call == DownloadMediaItem(item, folder, event)
     IN  /\ folder' = [folder EXCEPT ![item.Filename] = call.file]
         /\ log' = Append(log, [req |-> call.req, err |-> call.err])
         /\ idx' = IF call.err THEN AfterError(idx) ELSE idx + 1
  /\ UNCHANGED <<variant, authVars, pickVars, pageVars, err, folder0, prevRun>>

\* The loop is through the list: main returns.
mainReturn ==
  /\ pc = "downloadItems"
  /\ idx > Len(items)
  /\ pc' = "exit"
  /\ UNCHANGED <<variant, authVars, mainVars>>

\* The program is run again on the same folder and retrieves the same list:
\* its download loop starts over.
Rerun ==
  /\ pc = "exit"
  /\ pc' = "downloadItems"
  /\ idx' = 1
  /\ log' = <<>>
  /\ folder0' = folder
  /\ prevRun' = IF \E i \in 1..Len(log) : log[i].err THEN "failed" ELSE "ok"
  /\ UNCHANGED <<variant, authVars, pickVars, pageVars, err, folder>>

\* ----------------------------------------------------------- specifications
\* main before the retrieval, on any folder.
MainIdle ==
  /\ session = NoSession
  /\ timerFired = FALSE
  /\ tickerReady = FALSE
  /\ pollLog = <<>>
  /\ fetches = 0
  /\ pageReqs = <<>>
  /\ pageResps = <<>>
  /\ nextPageToken = ""
  /\ payload = [pageSize |-> FALSE, pageToken |-> ""]
  /\ items = <<>>
  /\ err = ""
  /\ idx = 1
  /\ folder \in Folders
  /\ folder0 = folder
  /\ log = <<>>
  /\ prevRun = "none"

InitAuth ==
  /\ pc = "getClient"
  /\ variant \in {"picker", "search"}
  /\ tokenFile \in TokenFiles
  /\ tokenFile0 = tokenFile
  /\ tok = NoToken
  /\ site = 0
  /\ registered = FALSE
  /\ listener = "none"
  /\ listeners = 0
  /\ handler = [h \in Requests |-> IdleHandler]
  /\ consumed = <<>>
  /\ exchanged = <<>>
  /\ saves = 0
  /\ MainIdle

NextAuth ==
  \/ tokenFromFile
  \/ checkExpiry
  \/ HandleFunc
  \/ ListenAndServe
  \/ \E h \in Requests, m \in Methods, q \in Queries, c \in Codes : postHandler(h, m, q, c)
  \/ \E h \in Requests : RecvCode(h)
  \/ Exchange
  \/ saveToken

SpecAuth == InitAuth /\ [][NextAuth]_vars

\* main once getClient has returned the client for a cached token that is
\* still good.
Init ==
  /\ pc = "authorized"
  /\ variant \in {"picker", "search"}
  /\ tokenFile = Token("cached", FALSE)
  /\ tokenFile0 = tokenFile
  /\ tok = tokenFile
  /\ site = 0
  /\ registered = FALSE
  /\ listener = "none"
  /\ listeners = 0
  /\ handler = [h \in Requests |-> IdleHandler]
  /\ consumed = <<>>
  /\ exchanged = <<>>
  /\ saves = 0
  /\ MainIdle

Next ==
  \/ newSession
  \/ waitForSessionComplete
  \/ TimerFire
  \/ Tick
  \/ SelectTimeout
  \/ SelectTicker
  \/ \E r \in Failures \cup {"false", "true"} : pollForCompleteSession(r)
  \/ getMediaItemsFromFirstPage
  \/ getMediaItemsFromPageURL
  \/ SearchMediaItems
  \/ CallDownloadMediaItem
  \/ \E event \in DownloadEvents : downloadItems(event)
  \/ mainReturn
  \/ Rerun

Spec == Init /\ [][Next]_vars

\* waitForSessionComplete on its own, from main's call of newSession to the
\* function's return.
InitWait == Init /\ variant = "picker"

NextWait ==
  \/ newSession
  \/ waitForSessionComplete
  \/ TimerFire
  \/ Tick
  \/ SelectTimeout
  \/ SelectTicker
  \/ \E r \in Failures \cup {"false", "true"} : pollForCompleteSession(r)

\* The timer fires after its finite duration however the loop is busy; every
\* HTTP request returns; a select with a ready case proceeds, and a timeout
\* case that is ready again and again is taken in the end.
WaitFairness ==
  /\ WF_vars(newSession)
  /\ WF_vars(waitForSessionComplete)
  /\ SF_vars(TimerFire)
  /\ SF_vars(SelectTimeout)
  /\ WF_vars(SelectTicker)
  /\ WF_vars(\E r \in Failures \cup {"false", "true"} : pollForCompleteSession(r))

SpecWait == InitWait /\ [][NextWait]_vars /\ WaitFairness

\* ------------------------------------------------------------------ claims
\* The calls of the current run so far, and what they did.
Calls == 1..Len(log)
Skipped(i) == log[i].req = "" /\ ~log[i].err
Requested(i) == log[i].req # ""
NameOf(i) == items[i].Filename

\* The call whose return a step of the download loop adds to the log.
LastCall == log'[Len(log')]
Calling == pc = "DownloadMediaItem" /\ Len(log') = Len(log) + 1

\* C1: DownloadMediaItem, called for an item whose Filename exists as a file
\* of the folder, returns success, sends no HTTP request and leaves the
\* folder as it is, whatever the item's BaseUrl.
C1_ExistingFileIsSkipped ==
  [][(Calling /\ folder[items[idx].Filename].exists)
       => (LastCall.req = "" /\ ~LastCall.err /\ folder' = folder)]_vars

\* An item named like a file that was there before the run has been skipped.
C1_Witness ==
  \E i \in Calls : Skipped(i) /\ folder[NameOf(i)] = OldFile /\ folder0[NameOf(i)] = OldFile

\* C2: the download phase is idempotent: in a run that follows a run in which
\* every call succeeded, no request is sent and the folder stays as the run
\* found it.
C2_DownloadIdempotent ==
  prevRun = "ok" => (\A i \in Calls : ~Requested(i)) /\ folder = folder0

\* A second run is through a list of two items of which the first run
\* downloaded at least one.
C2_Witness ==
  /\ prevRun = "ok"
  /\ pc = "exit"
  /\ Len(items) >= 2
  /\ \E i \in Calls : folder[NameOf(i)].bytes = downloadUrl(items[i])

\* C3 (as claimed): the transfer is resumable: a failed download leaves no
\* file that makes a later run skip the item, so in a later run an item is
\* skipped only for a file whose download reached its end.
C3_FailedDownloadIsRetried ==
  prevRun # "none" => \A i \in Calls : Skipped(i) => folder[NameOf(i)].complete

\* C4 (as claimed): once the timeout timer has fired, waitForSessionComplete
\* sends no further session poll.
C4_NoPollAfterTimeout ==
  [][timerFired => Len(pollLog') = Len(pollLog)]_vars

\* C5: the selected items are requested only after a session poll reported
\* mediaItemsSet = true; fetchSelectedMediaItems is called once at most, and
\* that poll is the last poll sent.
C5_FetchAfterCompletePoll ==
  /\ fetches <= 1
  /\ (variant = "picker" /\ pageReqs # <<>>) => fetches = 1
  /\ fetches = 1 => /\ pollLog # <<>>
                    /\ pollLog[Len(pollLog)] = "true"
  /\ \A i \in 1..Len(pollLog) : pollLog[i] = "true" => i = Len(pollLog)

\* The list was fetched, in more than one page, after a poll that said false
\* and one that said true.
C5_Witness ==
  /\ variant = "picker"
  /\ pc = "downloadItems"
  /\ pollLog = <<"false", "true">>
  /\ Len(pageReqs) >= 2

\* The items of a sequence of pages, in the order of the pages.
RECURSIVE Flatten(_)
Flatten(pages) ==
  IF pages = <<>> THEN <<>>
  ELSE Flatten(SubSeq(pages, 1, Len(pages) - 1)) \o pages[Len(pages)].mediaItems

\* The retrieval has returned its list to main without an error.
Retrieved == pc \in {"downloadItems", "DownloadMediaItem", "exit"}

\* C6: pagination follows the continuation token: the first request carries
\* no page token, every later request carries the token of the response
\* before it, no request follows a response with an empty nextPageToken, and
\* the list returned is the concatenation of the pages in their order
\* (fetchSelectedMediaItems and SearchMediaItems).
C6_PaginationFollowsToken ==
  /\ pageReqs # <<>> => pageReqs[1] = ""
  /\ Len(pageResps) <= Len(pageReqs)
  /\ Len(pageReqs) <= Len(pageResps) + 1
  /\ \A i \in 2..Len(pageReqs) : pageReqs[i] = pageResps[i - 1].nextPageToken
  /\ \A i \in 1..Len(pageResps) :
       pageResps[i].nextPageToken = "" => i = Len(pageResps) /\ i = Len(pageReqs)
  /\ Retrieved => /\ pageResps # <<>>
                  /\ pageResps[Len(pageResps)].nextPageToken = ""
                  /\ items = Flatten(pageResps)

\* A search returned two different items that came on two pages.
C6_Witness ==
  /\ variant = "search"
  /\ Retrieved
  /\ Len(pageResps) >= 2
  /\ Len(items) >= 2
  /\ items[1] # items[2]

\* C7 (as claimed): the token exchange is invoked only with the non-empty
\* code of a callback request that was received.
C7_ExchangeOnlyAuthorizationCode ==
  \A i \in 1..Len(exchanged) :
    /\ exchanged[i] # ""
    /\ \E h \in Requests : handler[h].st = "responded" /\ handler[h].code = exchanged[i]

\* C8: the callback is one-shot: whatever callback requests arrive, the flow
\* takes one code at most from the channel and exchanges only that code; a
\* flow that got its token took exactly one code and made exactly one
\* exchange, and the token in use stays the one of that code.
C8_OneShotCallback ==
  /\ Len(consumed) <= 1
  /\ Len(exchanged) <= Len(consumed)
  /\ (pc = "saveToken" \/ saves >= 1) => Len(consumed) = 1 /\ exchanged = consumed
  /\ (exchanged # <<>> /\ pc # "fatal") => tok.kind = "token" /\ tok.code = consumed[1]

\* getClient has returned a token of the flow while a later callback request
\* is blocked in its send.
C8_Witness ==
  /\ pc = "authorized"
  /\ Len(consumed) = 1
  /\ \E g, h \in Requests :
       g < h /\ handler[g].st = "responded" /\ handler[h].st = "sending"
             /\ handler[h].code # tok.code

C10_DownloadAfterRetrieval ==
  /\ log # <<>> => /\ err = ""
                   /\ pageResps # <<>>
                   /\ pageResps[Len(pageResps)].nextPageToken = ""
                   /\ Len(pageReqs) = Len(pageResps)
                   /\ items = Flatten(pageResps)
  /\ err # "" => /\ pc = "fatal"
                 /\ items = <<>>
                 /\ log = <<>>
                 /\ folder = folder0
                 /\ prevRun = "none"

\* A page request failed after an earlier page had brought an item.
C10_Witness ==
  /\ err = "failed to fetch next page"
  /\ pageResps # <<>>
  /\ pageResps[1].mediaItems # <<>>

\* C11: no poll is retried: a session poll that fails (transport error,
\* status other than 200, undecodable body) is the last poll sent, and
\* waitForSessionComplete returns the polling error with an empty list and
\* without fetching, whether or not the timer has fired.
C11_FailedPollEndsWait ==
  \A i \in 1..Len(pollLog) :
    pollLog[i] \in Failures
      => /\ i = Len(pollLog)
         /\ err = "polling failed"
         /\ pc = "fatal"
         /\ items = <<>>
         /\ fetches = 0
         /\ pageReqs = <<>>

\* The second poll failed before the timer had fired.
C11_Witness ==
  /\ Len(pollLog) = 2
  /\ pollLog[1] = "false"
  /\ pollLog[2] \in Failures
  /\ ~timerFired
  /\ err = "polling failed"

C13_OneCallPerItemInOrder ==
  Retrieved =>
    /\ idx = Len(log) + 1
    /\ idx <= Len(items) + 1
    /\ pc = "DownloadMediaItem" => idx <= Len(items)
    /\ pc = "exit" => Len(log) = Len(items)
    /\ \A i \in Calls : Requested(i) => log[i].req = downloadUrl(items[i])

\* The call for the second item is in progress; the call for the first one
\* sent its request and has returned.
C13_Witness ==
  /\ pc = "DownloadMediaItem"
  /\ idx = 2
  /\ Len(log) = 1
  /\ Requested(1)
  /\ items[1] # items[2]

\* C14: waitForSessionComplete terminates: once it is in its loop, it
\* returns the timeout error in the end unless a poll fails or reports the
\* selection as set; under a fair choice of the select it does not poll
\* forever.
C14_WaitTerminates ==
  (pc = "select")
    ~> \/ err = "session timed out"
       \/ /\ pollLog # <<>>
          /\ pollLog[Len(pollLog)] \in Failures \cup {"true"}

\* The function returned the timeout error after polls that all said false.
C14_Witness ==
  /\ err = "session timed out"
  /\ Len(pollLog) = MaxPolls
  /\ \A i \in 1..Len(pollLog) : pollLog[i] = "false"

\* C15 (as claimed): waitForSessionComplete never panics on the polling
\* configuration: for every pollInterval and timeoutIn it polls or returns
\* an error, and a pollInterval that parses to zero or less has made it
\* return an error.
C15_NoPanicOnPollingConfig ==
  /\ pc # "panic"
  /\ LET interval == parseDuration(session.pollInterval)
     IN  (/\ session # NoSession
          /\ pc # "waitForSessionComplete"
          /\ interval.ok
          /\ interval.d <= 0) => err # ""

\* C16 (as claimed): no postHandler stays blocked on its send to
\* authCodeChannel. The channel is received from once in a run (C8), so the
\* send of a blocked handler can complete only while that receive is still
\* to come: a handler is in its send only before the receive.
C16_NoHandlerBlockedForever ==
  \A h \in Requests : handler[h].st = "sending" => consumed = <<>>

\* C17 (as claimed): getClient starts the authorization flow once at most:
\* getTokenFromWeb is not entered when an earlier flow of the run has
\* registered the handler, one listener is started and one exchange made.
C17_FlowStartedAtMostOnce ==
  /\ pc = "HandleFunc" => ~registered
  /\ pc # "panic"
  /\ listeners <= 1
  /\ Len(exchanged) <= 1

\* C18: the download loop never overwrites a file. A file the run found
\* stays as it was and every item named like it is skipped; a file the run
\* created holds the bytes one call for an item of that name requested, and
\* every later item of that name has been skipped without a request.
C18_FileNeverOverwritten ==
  \A n \in Filenames :
    /\ folder0[n].exists
         => /\ folder[n] = folder0[n]
            /\ \A j \in Calls : NameOf(j) = n => Skipped(j)
    /\ (folder[n].exists /\ ~folder0[n].exists)
         => \E i \in Calls :
              /\ NameOf(i) = n
              /\ Requested(i)
              /\ folder[n].bytes = log[i].req
              /\ \A j \in Calls : (j > i /\ NameOf(j) = n) => Skipped(j)

\* Two items of one list have the same Filename and different URLs: the
\* first was downloaded, the second skipped, and the file holds the bytes
\* of the first.
C18_Witness ==
  \E i, j \in Calls :
    /\ i < j
    /\ NameOf(i) = NameOf(j)
    /\ items[i].BaseUrl # items[j].BaseUrl
    /\ Requested(i)
    /\ ~log[i].err
    /\ Skipped(j)
    /\ ~folder0[NameOf(i)].exists
    /\ folder[NameOf(j)].bytes = downloadUrl(items[i])

\* C19 (as claimed): SearchMediaItems leaves the caller's filter payload
\* without a pageToken: when a call has returned, the first request of a
\* next call with the same map, prepared with the empty local page token,
\* carries no pageToken.
C19_PayloadKeepsNoPageToken ==
  (variant = "search" /\ Retrieved) => Prepared(payload, "").pageToken = ""

====
